---- MODULE Spec2Model ----
(***************************************************************************)
(* A model of copycat (src/copycat.py): the copy engine (hash_file,       *)
(* copyfile and the directory walk that calls it), the disk backup worker  *)
(* (backup: partitions, mount, walk, unmount) and the supervisor loop of   *)
(* __main__ (poll, debounce, spawn, drain, join).                          *)
(*                                                                         *)
(* Four layers share one set of variables.  Every specification runs one   *)
(* layer and leaves the variables of the other layers at their initial     *)
(* values:                                                                 *)
(*   SpecCopy     one walk of a directory of regular files, byte level     *)
(*   SpecWalk     the recursive walk of a volume's tree, path level        *)
(*   SpecBackup   one worker over a disk and its partitions                *)
(*   SpecSup      the supervisor loop with its workers                     *)
(*   SpecSupFair  SpecSup with the supervisor's own steps weakly fair      *)
(***************************************************************************)
EXTENDS Integers, Sequences, FiniteSets, TLC

VARIABLES
    \* ---- configuration (read once at startup, read-only afterwards)
    config,       \* [verbose, hardlink, blacklist, copy_dotfiles]
    \* ---- copy layer: backup_dir over one directory, copyfile, hash_file
    files,        \* the source directory's listing: a sequence of files
    dest,         \* the destination file of each listed entry
    records,      \* rows of the table "files" of files.db, in insertion order
    q,            \* the progress queue (multiprocessing.Queue), oldest first
    wpc,          \* where the walk is: "walk", "copyfile", "done", "raised"
    idx,          \* index in the listing of the entry being processed
    numtry,       \* copyfile's parameter numtry of the running invocation
    cpCalls,      \* history: how often "cp -a" was run for each entry
    lnCalls,      \* history: the (existing, new) pairs "ln" was run for
    attempts,     \* history: how each invocation of copyfile for an entry ended
    \* ---- backup layer: backup(disk, q, config, db) in one worker process
    disk,         \* the device address backup was started for
    nodes,        \* the device nodes that exist (what glob sees)
    vols,         \* for each node, the listing of its filesystem's root
    bpc,          \* where backup is: "start", "mount", "walk", "finally", "exited"
    partitions,   \* the list get_partitions returned
    pidx,         \* index in partitions of the partition being processed
    widx,         \* index in the volume's listing of the entry being processed
    dirs,         \* the directories that exist below mountdir
    mounted,      \* the directories a filesystem is mounted on
    raising,      \* an exception is propagating out of backup_dir
    workerExit,   \* the worker's exit code once backup has ended
    created,      \* history: the directories this worker created
    mountCalls,   \* history: the volumes "mount" was run for, in order
    walked,       \* history: the volumes backup_dir was called for, in order
    raisedIn,     \* history: the volumes whose walk raised
    placed,       \* history: the entries copyfile placed, with their destination
    clock,        \* the time of day, in seconds
    backuptimestamp, \* backuptimestamp of backup
    \* ---- walk layer: backup_dir(disk_name, srcmount, location, ...) recursing
    srcmount,     \* backup_dir's parameter srcmount: where the volume is mounted
    tree,         \* the volume's tree: the node at each path below its root
    stack,        \* the running invocations of backup_dir, the innermost last
    kpc,          \* where the walk is: "walk", "done", "raised"
    ops,          \* history: the calls of copyfile and copylink and what they did
    made,         \* the entries of the destination tree
    listed,       \* history: the directories os.listdir was run on
    seen,         \* history: the entries the loops of backup_dir have gone through
    \* ---- supervisor layer: the loop of __main__ and its worker processes
    spc,          \* where the loop is: "poll", "for", "recheck", "drain", "join", "end"
    last_disks,   \* last_disks
    current_disks,\* current_disks
    recheck_disks,\* recheck_disks
    di,           \* index in current_disks of the "for disk" loop
    processes,    \* processes: the tracked (disk, process) pairs
    still_running,\* still_running
    ji,           \* index in processes of the join loop
    exitcode,     \* Process.exitcode of each process started so far
    nspawn,       \* how many processes were started so far
    sent,         \* how many messages each worker has put on q
    printed,      \* for each process, the lines printed about it, in order
    syncs,        \* how often "sync" was run
    polls,        \* history: the results of the poll before the latest, and the latest
    spawnInfo     \* history: for each process, its disk, and the exit codes and
                  \* the tracked processes at its start

copyVars == <<files, dest, records, wpc, idx, numtry, cpCalls, lnCalls, attempts>>
backupVars == <<disk, nodes, vols, bpc, partitions, pidx, widx, dirs, mounted, raising,
                workerExit, created, mountCalls, walked, raisedIn, placed, clock,
                backuptimestamp>>
walkVars == <<srcmount, tree, stack, kpc, ops, made, listed, seen>>
supVars == <<spc, last_disks, current_disks, recheck_disks, di, processes,
             still_running, ji, exitcode, nspawn, sent, printed, syncs, polls,
             spawnInfo>>
vars == <<config, q, copyVars, backupVars, walkVars, supVars>>

----------------------------------------------------------------------------
(* Bounds of the model. *)

\* Longest file, in bytes.
MaxLen == 7

\* Most entries in the root directory of a volume (backup layer).
MaxEntries == 2

\* Most worker processes started in one run of the supervisor.  The polls
\* show a new device only while a further process may be started.
MaxSpawns == 2

\* Most progress messages one worker puts on the queue (supervisor layer).
MaxMsgs == 1

\* Most nodes (files, links, directories) in a volume's tree (walk layer).
MaxNodes == 4

\* The byte values a file is made of.
Byte == {0, 1}

----------------------------------------------------------------------------
(* Program constants.  Sizes are scaled down so that a file of a few bytes   *)
(* spans several blocks and, above the limit, has bytes outside the three   *)
(* windows of a partial hash: a block is 2 bytes where the program's is     *)
(* 1 MiB, and the limit of the full hash is 3 blocks where the program's is *)
(* 32 (at least 3 blocks, so that the three windows lie inside the file).   *)

\* block_size = 1024*1024 in hash_file.
block_size == 2

\* fstat.st_size > 33554432 in copyfile: files above it are hashed partially.
PartialLimit == 6

\* "if numtry > 3" in copyfile.
MaxTries == 3

----------------------------------------------------------------------------
(* Files and byte strings. *)

Min(a, b) == IF a < b THEN a ELSE b

\* All byte strings of length at most n.
BytesUpTo(n) == UNION {[1..k -> Byte] : k \in 0..n}

Contents == BytesUpTo(MaxLen)

\* A file that does not exist (a destination before the first cp).
NoFile == [exists |-> FALSE, readable |-> FALSE, data |-> <<>>]

RegularFile(data, readable) ==
    [exists |-> TRUE, readable |-> readable, data |-> data]

\* f.read(n) with the file position at pos: at most n bytes, fewer at the end.
read(data, pos, n) == SubSeq(data, pos + 1, Min(pos + n, Len(data)))


----------------------------------------------------------------------------
(* Paths.  A path is the sequence of its characters.  The device directory  *)
(* "/dev/sd" is shortened to "/", so that <<"/", "a">> stands for /dev/sda  *)
(* and <<"/", "a", "1">> for /dev/sda1; mountdir is <<"/", "m">> and        *)
(* backupdir <<"/", "c">>.                                                  *)

Sep == "/"

\* The characters of the model's paths, in ascending (ASCII) order.
CharOrder == <<",", "-", ".", "/", "0", "1", "2", "3", "4", "5", "6", "7", "8", "9",
               "a", "b", "c", "d", "f", "h", "l", "m", "t", "x">>

Ord(c) == CHOOSE k \in 1..Len(CharOrder) : CharOrder[k] = c

\* s < t for strings, as list.sort() compares them.
StrLess(s, t) ==
    \E k \in 1..(Len(s) + 1) :
        /\ k <= Len(t)
        /\ \A j \in 1..(k - 1) : s[j] = t[j]
        /\ (k = Len(s) + 1 \/ Ord(s[k]) < Ord(t[k]))

\* list.sort() of the strings of a set (glob returns no path twice).
RECURSIVE sort(_)
sort(S) ==
    IF S = {} THEN <<>>
    ELSE LET least == CHOOSE s \in S : \A t \in S \ {s} : StrLess(s, t)
         IN  <<least>> \o sort(S \ {least})

\* s.startswith(prefix)
StartsWith(s, prefix) ==
    /\ Len(prefix) <= Len(s)
    /\ SubSeq(s, 1, Len(prefix)) = prefix

\* "x in list"
InList(list, x) == \E k \in 1..Len(list) : list[k] = x

\* "sub in s" for strings
Contains(s, sub) ==
    \E k \in 0..(Len(s) - Len(sub)) : SubSeq(s, k + 1, k + Len(sub)) = sub

\* path.split(os.sep)[-1]: what follows the last separator.
LastComponent(path) ==
    LET seps == {k \in 1..Len(path) : path[k] = Sep}
        from == IF seps = {} THEN 0
                ELSE CHOOSE k \in seps : \A j \in seps : j <= k
    IN  SubSeq(path, from + 1, Len(path))

\* os.path.join(a, b)
join(a, b) ==
    IF b # <<>> /\ b[1] = Sep THEN b
    ELSE IF a = <<>> \/ a[Len(a)] = Sep THEN a \o b
    ELSE a \o <<Sep>> \o b

\* config.get('mountdir')
mountdir == <<Sep, "m">>

\* config.get('backupdir')
backupdir == <<Sep, "c">>

\* s.lstrip(os.sep)
RECURSIVE lstrip(_)
lstrip(s) == IF s # <<>> /\ Head(s) = Sep THEN lstrip(Tail(s)) ELSE s

\* The decimal digits.
Digits == <<"0", "1", "2", "3", "4", "5", "6", "7", "8", "9">>

\* time.strftime("%Y-%m-%d_%H_%M-%S") at time t: a text that differs from
\* second to second (the model's runs last fewer than 10 seconds).
strftime(t) == <<Digits[t + 1]>>

\* backuplocation of copyfile and copylink:
\* os.path.join(config.get('backupdir'), backuptimestamp, disk_name)
backuplocation(disk_name, timestamp) == join(join(backupdir, timestamp), disk_name)

\* src of copyfile, and the path copylink reads the link of:
\* os.path.join(location, subdir, file)
source_path(loc, subdir, file) == join(join(loc, subdir), file)

\* dest of copyfile and copylink: os.path.join(backuplocation, subdir, file)
dest_path(disk_name, timestamp, subdir, file) ==
    join(join(backuplocation(disk_name, timestamp), subdir), file)

\* subdir as backup_dir computes it from srcmount and location (lines
\* 140-143 and 148-151); "location.find(srcmount) == 0" says that location
\* starts with srcmount.
relative_subdir(mount, loc) ==
    IF StartsWith(loc, mount)
    THEN lstrip(SubSeq(loc, Len(mount) + 1, Len(loc)))
    ELSE lstrip(loc)

----------------------------------------------------------------------------
(* hash_file.  SHA-512 is modelled as collision free: the digest of a file  *)
(* is the string of bytes that were fed to m.update(), in order.            *)

\* A full hash that lacks its loop: only the first block is read and fed.
FullFeedOneBlock(data, pos) == read(data, pos, block_size)

\* The "while True" loop of the full hash: blocks are read and fed until a
\* read returns no data.
RECURSIVE FullFeed(_, _)
FullFeed(data, pos) ==
    LET block == read(data, pos, block_size)
    IN  IF block = <<>> THEN <<>>
        ELSE block \o FullFeed(data, pos + Len(block))

\* The partial hash: the first block, the last block (f.seek(-block_size, 2))
\* and the block around the middle.  After the second read the position is
\* the end of the file, so f.tell() is the file's length.
PartialFeed(data) ==
    LET first  == read(data, 0, block_size)
        last   == read(data, Len(data) - block_size, block_size)
        tell   == Len(data)
        middle == read(data, (tell \div 2) - (block_size \div 2), block_size)
    IN  first \o last \o middle

\* Whether hash_file raises: open() fails on a missing or unreadable file,
\* and f.seek(-block_size, 2) fails on a file shorter than one block.
hash_raises(file, partial) ==
    \/ ~file.exists
    \/ ~file.readable
    \/ partial /\ Len(file.data) < block_size

\* m.hexdigest() of hash_file(file, partial), where it does not raise.  The
\* "return None" after the with-block is never reached: the block returns or
\* raises.
hash_file(file, partial) ==
    IF partial THEN PartialFeed(file.data) ELSE FullFeed(file.data, 0)

----------------------------------------------------------------------------
(* copyfile. *)

\* The literal 'TODO', which is no hex digest.
TODO == <<-1>>

\* db_hash_table = ['TODO']
db_hash_table == <<TODO>>

\* "pre_copy_file_hash in db_hash_table": membership in the list.
in_db_hash_table(digest) ==
    \E i \in 1..Len(db_hash_table) : db_hash_table[i] = digest

\* data with byte j flipped.
Flip(data, j) == [data EXCEPT ![j] = 1 - data[j]]

\* What "cp -a src dest" may leave at dest (Ex does not look at cp's exit
\* status): a faithful copy, a truncated copy, a copy with one byte
\* corrupted, or, when cp fails before it opens dest, whatever was there.
cp(src, old) ==
    {RegularFile(src.data, TRUE)}
        \cup {RegularFile(SubSeq(src.data, 1, k), TRUE) : k \in 0..(Len(src.data) - 1)}
        \cup {RegularFile(Flip(src.data, j), TRUE) : j \in 1..Len(src.data)}
        \cup {old}

\* A copyfile that does not compare the digests.
digests_not_compared(pre, post) == FALSE

\* The test that sends copyfile into the next attempt.  hash_file returns no
\* None, so the two "is None" tests are never true.
hash_mismatch(pre, post) == pre # post

Msg(kind, i) == [kind |-> kind, file |-> i]

\* Process.exitcode: None while the process runs, then its exit code.
None == [set |-> FALSE, code |-> 0]

ExitCode(c) == [set |-> TRUE, code |-> c]

\* One invocation of copyfile(..., numtry) for the entry files[idx].  The
\* recursive call of line 117 is the next invocation; nothing follows it in
\* the caller, so its return is the return of the whole chain.
copyfile ==
    /\ wpc = "copyfile"
    /\ LET src     == files[idx]
           q1      == IF config.verbose THEN Append(q, Msg("copying", idx)) ELSE q
           partial == Len(src.data) > PartialLimit
           ended(how) == [attempts EXCEPT ![idx] = Append(@, how)]
       IN  IF numtry > MaxTries THEN
               /\ q' = Append(q1, Msg("Could not copy", idx))
               /\ wpc' = "walk"
               /\ idx' = idx + 1
               /\ attempts' = ended("gave up")
               /\ UNCHANGED <<dest, records, cpCalls, numtry>>
           ELSE IF hash_raises(src, partial) THEN
               \* os.stat or open() of the source raised
               /\ q' = q1
               /\ wpc' = "raised"
               /\ attempts' = ended("raised")
               /\ UNCHANGED <<dest, records, cpCalls, numtry, idx>>
           ELSE IF config.hardlink /\ in_db_hash_table(hash_file(src, partial)) THEN
               \* db_hash_table[pre_copy_file_hash] indexes a list by a string
               \* and raises before "ln" is run
               /\ q' = q1
               /\ wpc' = "raised"
               /\ attempts' = ended("raised")
               /\ UNCHANGED <<dest, records, cpCalls, numtry, idx>>
           ELSE \E out \in cp(src, dest[idx]) :
               LET pre == hash_file(src, partial)
               IN  /\ dest' = [dest EXCEPT ![idx] = out]
                   /\ cpCalls' = [cpCalls EXCEPT ![idx] = @ + 1]
                   /\ IF hash_raises(out, partial) THEN
                          /\ q' = q1
                          /\ wpc' = "raised"
                          /\ attempts' = ended("raised")
                          /\ UNCHANGED <<records, numtry, idx>>
                      ELSE IF hash_mismatch(pre, hash_file(out, partial)) THEN
                          /\ q' = q1
                          /\ numtry' = numtry + 1
                          /\ attempts' = ended("mismatch")
                          /\ UNCHANGED <<records, wpc, idx>>
                      ELSE
                          /\ q' = IF config.verbose
                                  THEN Append(q1, Msg("copied", idx)) ELSE q1
                          /\ records' = Append(records,
                                 [hash |-> hash_file(out, partial),
                                  source |-> idx, target |-> idx])
                          /\ wpc' = "walk"
                          /\ idx' = idx + 1
                          /\ attempts' = ended("verified")
                          /\ UNCHANGED numtry
    /\ UNCHANGED <<config, walkVars, files, lnCalls, backupVars, supVars>>

\* The loop of backup_dir over the listing: the next regular file is handed
\* to copyfile with numtry = 1; after the last entry backup_dir returns.
backup_dir ==
    /\ wpc = "walk"
    /\ IF idx <= Len(files)
       THEN /\ wpc' = "copyfile"
            /\ numtry' = 1
       ELSE /\ wpc' = "done"
            /\ UNCHANGED numtry
    /\ UNCHANGED <<config, walkVars, q, files, dest, records, idx, cpCalls, lnCalls, attempts,
                   backupVars, supVars>>

----------------------------------------------------------------------------
(* The copy layer's specification. *)

SourceFiles == {RegularFile(d, r) : d \in Contents, r \in BOOLEAN}

\* Short files, for directories of more than one entry.
SmallFiles == {RegularFile(d, r) : d \in BytesUpTo(1), r \in BOOLEAN}

\* The directories walked: one file of any content, or two short files.
Listings == [1..1 -> SourceFiles] \cup [1..2 -> SmallFiles]

\* The supervisor layer at rest.
SupIdle ==
    /\ spc = "idle"
    /\ last_disks = <<>>
    /\ current_disks = <<>>
    /\ recheck_disks = <<>>
    /\ di = 0
    /\ processes = <<>>
    /\ still_running = <<>>
    /\ ji = 0
    /\ exitcode = <<>>
    /\ nspawn = 0
    /\ sent = <<>>
    /\ printed = <<>>
    /\ syncs = 0
    /\ polls = <<>>
    /\ spawnInfo = <<>>

\* The backup layer at rest (no worker is modelled).
BackupIdle ==
    /\ disk = <<>>
    /\ nodes = {}
    /\ vols = <<>>
    /\ bpc = "idle"
    /\ partitions = <<>>
    /\ pidx = 0
    /\ widx = 0
    /\ dirs = {}
    /\ mounted = {}
    /\ raising = FALSE
    /\ workerExit = None
    /\ created = {}
    /\ mountCalls = <<>>
    /\ walked = <<>>
    /\ raisedIn = {}
    /\ placed = {}
    /\ clock = 0
    /\ backuptimestamp = <<>>

\* The walk layer at rest.
WalkIdle ==
    /\ srcmount = <<>>
    /\ tree = {}
    /\ stack = <<>>
    /\ kpc = "idle"
    /\ ops = {}
    /\ made = {}
    /\ listed = {}
    /\ seen = {}

InitCopy ==
    /\ BackupIdle
    /\ WalkIdle
    /\ SupIdle
    /\ config \in [verbose : BOOLEAN, hardlink : BOOLEAN, blacklist : {<<>>},
                  copy_dotfiles : {FALSE}]
    /\ files \in Listings
    /\ dest = [i \in 1..Len(files) |-> NoFile]
    /\ records = <<>>
    /\ q = <<>>
    /\ wpc = "walk"
    /\ idx = 1
    /\ numtry = 0
    /\ cpCalls = [i \in 1..Len(files) |-> 0]
    /\ lnCalls = <<>>
    /\ attempts = [i \in 1..Len(files) |-> <<>>]

NextCopy == backup_dir \/ copyfile

SpecCopy == InitCopy /\ [][NextCopy]_vars

----------------------------------------------------------------------------
(* backup: the worker of one disk. *)

\* get_partitions without its filter "p != disk".
get_partitions_unfiltered(d) ==
    sort({n \in nodes : /\ StartsWith(n, d)
                        /\ ~Contains(SubSeq(n, Len(d) + 1, Len(n)), <<Sep>>)})

\* get_partitions(disk): glob(disk + "*") without the disk itself, sorted.
\* The "*" of glob matches no separator.
get_partitions(d) ==
    sort({n \in nodes : /\ StartsWith(n, d)
                        /\ n # d
                        /\ ~Contains(SubSeq(n, Len(d) + 1, Len(n)), <<Sep>>)})

disklocation == join(mountdir, LastComponent(disk))

\* The directories that exist below directory d.
Children(d) == {x \in dirs : x # d /\ StartsWith(x, d \o <<Sep>>)}

\* The volume being processed and the directory it is mounted on: the disk
\* on disklocation when it has no partitions, else the partition of this
\* turn of the loop on partitionlocation.
volume == IF partitions = <<>> THEN disk ELSE partitions[pidx]

location ==
    IF partitions = <<>> THEN disklocation
    ELSE join(disklocation, LastComponent(partitions[pidx]))

\* Lines 156-177: the stale directory is removed (os.removedirs raises on a
\* directory that is not empty) and made again, the timestamp of the run is
\* taken, and the partitions listed.
backup ==
    /\ bpc = "start"
    /\ IF disklocation \in dirs /\ Children(disklocation) # {}
       THEN /\ bpc' = "exited"
            /\ workerExit' = ExitCode(1)
            /\ UNCHANGED <<dirs, created, partitions, pidx, backuptimestamp>>
       ELSE /\ dirs' = dirs \cup {disklocation}
            /\ created' = {disklocation}
            /\ partitions' = get_partitions(disk)
            /\ pidx' = 1
            /\ bpc' = "mount"
            /\ backuptimestamp' = strftime(clock)
            /\ UNCHANGED workerExit
    /\ UNCHANGED <<config, walkVars, q, copyVars, supVars, disk, nodes, vols, widx, mounted,
                   raising, mountCalls, walked, raisedIn, placed, clock>>

\* Lines 178-186 and 194-207: the partition's directory is made (the disk's
\* exists), the message queued and "mount" run, which succeeds or fails; Ex
\* raises on neither.  In the loop over the partitions time.sleep(2) follows.
\* Then the try block is entered and backup_dir called.
\* "if partition == disk: continue" never applies: get_partitions has
\* dropped the disk.
mount_volume ==
    /\ bpc = "mount"
    /\ \E ok \in BOOLEAN :
           mounted' = IF ok THEN mounted \cup {location} ELSE mounted
    /\ dirs' = dirs \cup {location}
    /\ created' = created \cup {location}
    /\ q' = Append(q, Msg("Mount and backup", volume))
    /\ mountCalls' = Append(mountCalls, volume)
    /\ walked' = Append(walked, volume)
    /\ widx' = 1
    /\ bpc' = "walk"
    /\ clock' = IF partitions = <<>> THEN clock ELSE clock + 2
    /\ UNCHANGED <<config, walkVars, copyVars, supVars, disk, nodes, vols, partitions,
                   pidx, raising, workerExit, raisedIn, placed, backuptimestamp>>

\* A backup that passes the disk's name for every volume.
disk_name_of_disk == LastComponent(disk)

\* disk_name (line 186) or partition_name (line 196): what backup passes to
\* backup_dir as its parameter disk_name.
disk_name == LastComponent(volume)

\* The name of entry i of a volume's root directory.
EntryName(i) == <<Digits[i + 1]>>

\* backup_dir on the volume's directory, one entry a step.  A directory
\* nothing is mounted on is empty.  copyfile ends for an entry in one of the
\* three ways of the copy layer: it places the file, it gives up after its
\* attempts and returns, or a hash raises (an unreadable file), and the
\* exception leaves backup_dir.  backup passes "" as location, from which
\* backup_dir computes the subdir it hands to copyfile.
walk_volume ==
    /\ bpc = "walk"
    /\ LET listing == IF location \in mounted THEN vols[volume] ELSE <<>>
       IN  IF widx > Len(listing) THEN
               /\ bpc' = "finally"
               /\ UNCHANGED <<q, widx, raising, raisedIn, placed>>
           ELSE IF listing[widx] = "unreadable" THEN
               /\ raising' = TRUE
               /\ raisedIn' = raisedIn \cup {volume}
               /\ bpc' = "finally"
               /\ UNCHANGED <<q, widx, placed>>
           ELSE \E copied \in BOOLEAN :
               /\ placed' =
                      IF copied
                      THEN placed \cup
                               {[volume |-> volume, entry |-> widx,
                                 target |-> dest_path(disk_name, backuptimestamp,
                                                      relative_subdir(location, <<>>),
                                                      EntryName(widx))]}
                      ELSE placed
               /\ q' = IF copied THEN q
                       ELSE Append(q, Msg("Could not copy", <<volume, widx>>))
               /\ widx' = widx + 1
               /\ UNCHANGED <<bpc, raising, raisedIn>>
    /\ UNCHANGED <<config, walkVars, copyVars, supVars, disk, nodes, vols, partitions,
                   pidx, dirs, mounted, workerExit, created, mountCalls, walked, clock,
                   backuptimestamp>>

\* The finally block (umount, os.rmdir) and what follows it: the exception,
\* if one is propagating, leaves backup and ends the process with exit code
\* 1; else the loop goes to the next partition, or backup returns.
unmount_volume ==
    /\ bpc = "finally"
    /\ mounted' = mounted \ {location}
    /\ dirs' = dirs \ {location}
    /\ IF raising THEN
           /\ bpc' = "exited"
           /\ workerExit' = ExitCode(1)
           /\ UNCHANGED pidx
       ELSE IF pidx < Len(partitions) THEN
           /\ bpc' = "mount"
           /\ pidx' = pidx + 1
           /\ UNCHANGED workerExit
       ELSE
           /\ bpc' = "exited"
           /\ workerExit' = ExitCode(0)
           /\ UNCHANGED pidx
    /\ UNCHANGED <<config, walkVars, q, copyVars, supVars, disk, nodes, vols, partitions,
                   widx, raising, created, mountCalls, walked, raisedIn, placed, clock,
                   backuptimestamp>>

----------------------------------------------------------------------------
(* The backup layer's specification. *)

\* The copy layer at rest.
CopyIdle ==
    /\ files = <<>>
    /\ dest = <<>>
    /\ records = <<>>
    /\ wpc = "idle"
    /\ idx = 0
    /\ numtry = 0
    /\ cpCalls = <<>>
    /\ lnCalls = <<>>
    /\ attempts = <<>>

DiskA == <<Sep, "a">>

\* The device nodes there may be: /dev/sda, its partitions, another disk.
NodeUniverse == {DiskA, <<Sep, "a", "1">>, <<Sep, "a", "2">>, <<Sep, "b">>}

EntryLists == UNION {[1..k -> {"ok", "unreadable"}] : k \in 0..MaxEntries}

\* What an earlier run may have left below mountdir: nothing, the disk's
\* directory, or the disk's directory with a partition's directory in it.
StaleDirs ==
    {{}, {join(mountdir, <<"a">>)},
     {join(mountdir, <<"a">>), join(join(mountdir, <<"a">>), <<"a", "1">>)}}

InitBackup ==
    /\ CopyIdle
    /\ WalkIdle
    /\ SupIdle
    /\ config \in [verbose : {TRUE}, hardlink : {TRUE}, blacklist : {<<>>},
                  copy_dotfiles : {FALSE}]
    /\ q = <<>>
    /\ disk = DiskA
    /\ nodes \in {N \in SUBSET NodeUniverse : disk \in N}
    /\ vols \in {f \in [NodeUniverse -> EntryLists] :
                    \A n \in NodeUniverse :
                        (IF get_partitions(disk) = <<>>
                         THEN n # disk
                         ELSE \A k \in 1..Len(get_partitions(disk)) :
                                  get_partitions(disk)[k] # n)
                            => f[n] = <<>>}
    /\ bpc = "start"
    /\ partitions = <<>>
    /\ pidx = 0
    /\ widx = 0
    /\ dirs \in StaleDirs
    /\ mounted = {}
    /\ raising = FALSE
    /\ workerExit = None
    /\ created = {}
    /\ mountCalls = <<>>
    /\ walked = <<>>
    /\ raisedIn = {}
    /\ placed = {}
    /\ clock \in 0..1
    /\ backuptimestamp = <<>>

NextBackup == backup \/ mount_volume \/ walk_volume \/ unmount_volume

SpecBackup == InitBackup /\ [][NextBackup]_vars

----------------------------------------------------------------------------
(* backup_dir: the recursive walk of a volume, with copylink and copyfile    *)
(* as the walk calls them.  Paths are texts, as in the program; the tree of  *)
(* the volume gives what each text names.                                    *)

\* A node of a volume's tree: its path below the root as the sequence of its
\* components, its kind ("file", "link" or "dir") and, for a link, the text
\* os.readlink returns.
Node(path, kind, target) == [path |-> path, kind |-> kind, target |-> target]

\* The nodes a tree may have: a file, a hidden file, a link (to a file, to a
\* directory, or with a target that starts with "-"), a directory with a
\* file, a hidden file and a link, a hidden directory with a file, and a
\* directory "m" with a directory "d" with a file.
NodeChoices ==
    {Node(<<<<"f">>>>, "file", <<>>),
     Node(<<<<".", "h">>>>, "file", <<>>),
     Node(<<<<"l">>>>, "link", <<"f">>),
     Node(<<<<"l">>>>, "link", <<"d">>),
     Node(<<<<"l">>>>, "link", <<"-", "x">>),
     Node(<<<<"d">>>>, "dir", <<>>),
     Node(<<<<"d">>, <<"f">>>>, "file", <<>>),
     Node(<<<<"d">>, <<".", "h">>>>, "file", <<>>),
     Node(<<<<"d">>, <<"l">>>>, "link", <<"f">>),
     Node(<<<<".", "t">>>>, "dir", <<>>),
     Node(<<<<".", "t">>, <<"f">>>>, "file", <<>>),
     Node(<<<<"m">>>>, "dir", <<>>),
     Node(<<<<"m">>, <<"d">>>>, "dir", <<>>),
     Node(<<<<"m">>, <<"d">>, <<"f">>>>, "file", <<>>)}

\* The path of the directory an entry is in.
Parent(path) == SubSeq(path, 1, Len(path) - 1)

\* The trees: at most MaxNodes nodes, one node a path, every node in a
\* directory of the tree.
Trees ==
    {t \in SUBSET NodeChoices :
        /\ Cardinality(t) <= MaxNodes
        /\ \A n1, n2 \in t : n1.path = n2.path => n1 = n2
        /\ \A n \in t :
               Len(n.path) > 1 => Node(Parent(n.path), "dir", <<>>) \in t}

\* The mount roots: an absolute path, and a path relative to the working
\* directory of the process.
MountRoots == {<<Sep, "m">>, <<"m">>}

\* The components of a path's text; empty components (repeated or trailing
\* separators) name nothing.
RECURSIVE components(_, _)
components(text, name) ==
    IF text = <<>> THEN (IF name = <<>> THEN <<>> ELSE <<name>>)
    ELSE IF Head(text) = Sep
         THEN (IF name = <<>> THEN <<>> ELSE <<name>>) \o components(Tail(text), <<>>)
         ELSE components(Tail(text), Append(name, Head(text)))

\* What a path's text names: the volume is mounted on srcmount, so a text
\* that is srcmount followed by components names the node at those
\* components (the root directory when there are none), if there is one.
Missing == Node(<<>>, "missing", <<>>)

resolve(text) ==
    LET rest == SubSeq(text, Len(srcmount) + 1, Len(text))
        path == components(rest, <<>>)
    IN  IF ~StartsWith(text, srcmount) \/ (rest # <<>> /\ Head(rest) # Sep) THEN Missing
        ELSE IF path = <<>> THEN Node(<<>>, "dir", <<>>)
        ELSE IF \E n \in tree : n.path = path
             THEN CHOOSE n \in tree : n.path = path
        ELSE Missing

\* os.listdir of the directory at a path: the names of its entries.
listdir(path) == {n.path[Len(n.path)] : n \in {x \in tree : Parent(x.path) = path}}

\* The parameters disk_name and backuptimestamp of the walk.
WalkLabel == <<"a">>

WalkStamp == strftime(0)

\* "ln -snf linkdest dest": a symbolic link to linkdest is made at dest, in
\* place of what was there.  ln reads an argument that starts with "-" as
\* options (no "--" precedes the operands): then no link to it is made at
\* dest.
ln_snf(linkdest, dst) ==
    IF linkdest # <<>> /\ Head(linkdest) = "-"
    THEN made
    ELSE {e \in made : e.path # dst}
             \cup {[path |-> dst, kind |-> "link", target |-> linkdest]}

\* A walk that skips no entry for its name.
skipped_never(file) == FALSE

\* file[0] == "." and config.getboolean("copy_dotfiles") == False
skipped(file) == Head(file) = "." /\ ~config.copy_dotfiles

\* The invocation of backup_dir at the top of the stack.
Top == stack[Len(stack)]

\* sourcedir = os.path.join(srcmount, location)
sourcedir(loc) == join(srcmount, loc)

\* Lines 129-133 of an invocation: sourcedir is computed and listed.
\* os.listdir raises when sourcedir names no directory.
backup_dir_listdir ==
    /\ kpc = "walk"
    /\ stack # <<>>
    /\ ~Top.entered
    /\ LET dir == resolve(sourcedir(Top.location))
       IN  IF dir.kind = "dir" THEN
               /\ stack' = [stack EXCEPT ![Len(stack)] =
                               [@ EXCEPT !.entered = TRUE, !.real = dir.path,
                                         !.todo = listdir(dir.path)]]
               /\ listed' = listed \cup {dir.path}
               /\ UNCHANGED kpc
           ELSE
               /\ kpc' = "raised"
               /\ UNCHANGED <<stack, listed>>
    /\ UNCHANGED <<config, q, copyVars, backupVars, supVars, srcmount, tree, ops, made,
                   seen>>

\* copylink (lines 69-77) for the entry file of the directory at location:
\* os.readlink raises when the path it is given names no link.
copylink(subdir, file, found) ==
    LET link == resolve(source_path(srcmount, subdir, file))
        dst == dest_path(WalkLabel, WalkStamp, subdir, file)
        call == [op |-> "copylink", found |-> found, subdir |-> subdir,
                 src |-> source_path(srcmount, subdir, file), dest |-> dst,
                 record |-> FALSE]
    IN  /\ ops' = ops \cup {call}
        /\ IF link.kind = "link" THEN
               /\ q' = IF config.verbose THEN Append(q, Msg("linking", found)) ELSE q
               /\ made' = ln_snf(link.target, dst)
               /\ UNCHANGED kpc
           ELSE
               /\ kpc' = "raised"
               /\ UNCHANGED <<q, made>>

\* copyfile (lines 79-125) for the entry file, as the walk sees it: os.stat
\* or the hash raises when src names no regular file; else the file is
\* copied, verified and recorded, or, after the attempts that all fail, the
\* last copy is left and "Could not copy" queued.
copyfile_call(subdir, file, found) ==
    LET src  == source_path(srcmount, subdir, file)
        dst == dest_path(WalkLabel, WalkStamp, subdir, file)
        call(rec) == [op |-> "copyfile", found |-> found, subdir |-> subdir,
                      src |-> src, dest |-> dst, record |-> rec]
        q1   == IF config.verbose THEN Append(q, Msg("copying", found)) ELSE q
    IN  IF resolve(src).kind = "file" THEN
            \E verified \in BOOLEAN :
                /\ ops' = ops \cup {call(verified)}
                /\ made' = {e \in made : e.path # dst}
                               \cup {[path |-> dst, kind |-> "file", target |-> <<>>]}
                /\ q' = IF verified
                        THEN (IF config.verbose
                              THEN Append(q1, Msg("copied", found)) ELSE q1)
                        ELSE Append(q1, Msg("Could not copy", found))
                /\ UNCHANGED kpc
        ELSE
            /\ ops' = ops \cup {call(FALSE)}
            /\ q' = q1
            /\ kpc' = "raised"
            /\ UNCHANGED made

\* One turn of the loop of lines 133-152 over the entries of the listed
\* directory (os.listdir gives them in any order): a hidden entry is skipped,
\* a link goes to copylink, a directory gets its own invocation of
\* backup_dir with location = nfile, a regular file goes to copyfile.
backup_dir_entry ==
    /\ kpc = "walk"
    /\ stack # <<>>
    /\ Top.entered
    /\ \E file \in Top.todo :
           LET found  == Append(Top.real, file)
               nfile  == join(sourcedir(Top.location), file)
               entry  == resolve(nfile)
               subdir == relative_subdir(srcmount, Top.location)
               rest   == [stack EXCEPT ![Len(stack)] =
                             [@ EXCEPT !.todo = @ \ {file}]]
           IN  /\ seen' = seen \cup {found}
               /\ IF skipped(file) THEN
                      /\ stack' = rest
                      /\ UNCHANGED <<q, kpc, ops, made>>
                  ELSE IF entry.kind = "link" THEN
                      /\ stack' = rest
                      /\ copylink(subdir, file, found)
                  ELSE IF entry.kind = "dir" THEN
                      /\ stack' = Append(rest, [location |-> nfile, entered |-> FALSE,
                                                real |-> <<>>, todo |-> {}])
                      /\ UNCHANGED <<q, kpc, ops, made>>
                  ELSE IF entry.kind = "file" THEN
                      /\ stack' = rest
                      /\ copyfile_call(subdir, file, found)
                  ELSE
                      /\ stack' = rest
                      /\ UNCHANGED <<q, kpc, ops, made>>
    /\ UNCHANGED <<config, copyVars, backupVars, supVars, srcmount, tree, listed>>

\* The loop of an invocation has ended: backup_dir returns to its caller.
backup_dir_return ==
    /\ kpc = "walk"
    /\ stack # <<>>
    /\ Top.entered
    /\ Top.todo = {}
    /\ stack' = SubSeq(stack, 1, Len(stack) - 1)
    /\ kpc' = IF Len(stack) = 1 THEN "done" ELSE "walk"
    /\ UNCHANGED <<config, q, copyVars, backupVars, supVars, srcmount, tree, ops, made,
                   listed, seen>>

\* backup has mounted a volume and calls backup_dir(disk_name, srcmount, "",
\* backuptimestamp, q, config, db).
InitWalk ==
    /\ CopyIdle
    /\ BackupIdle
    /\ SupIdle
    /\ config \in [verbose : BOOLEAN, hardlink : {TRUE}, blacklist : {<<>>},
                  copy_dotfiles : BOOLEAN]
    /\ q = <<>>
    /\ srcmount \in MountRoots
    /\ tree \in Trees
    /\ stack = <<[location |-> <<>>, entered |-> FALSE, real |-> <<>>, todo |-> {}]>>
    /\ kpc = "walk"
    /\ ops = {}
    /\ made = {}
    /\ listed = {}
    /\ seen = {}

NextWalk == backup_dir_listdir \/ backup_dir_entry \/ backup_dir_return

SpecWalk == InitWalk /\ [][NextWalk]_vars

----------------------------------------------------------------------------
(* The supervisor: the loop of __main__, and its workers seen from it. *)

DiskB == <<Sep, "b">>

\* The device nodes a poll may find.
SupNodes == {DiskA, DiskB, <<Sep, "a", "1">>}

\* The values of the option blacklist: empty, a disk, a partition.
Blacklists == {<<>>, DiskB, <<Sep, "a", "1">>}

\* The exit codes of a worker: success, an uncaught exception, SIGKILL.
ExitCodes == {0, 1, -9}

Pids == 1..MaxSpawns

\* glob of the pattern "/dev/sd?": one character after the prefix.
glob_pattern(path) == Len(path) = 2 /\ path[1] = Sep

\* get_disks(config) when the nodes n exist: the matches of the patterns,
\* sorted.
get_disks(n) == sort({path \in n : glob_pattern(path)})

\* "disk not in last_disks"
is_new(d) == ~InList(last_disks, d)

\* "disk in config.get('blacklist')": a substring test on the option's text.
in_blacklist(d) == Contains(config.blacklist, d)

\* A debounce whose re-poll is not looked at.
still_present_unchecked(d) == TRUE

\* "if disk in recheck_disks"
still_present(d) == InList(recheck_disks, d)

\* process.join() without a timeout returns when the process has ended.
join_without_timeout(pid) == exitcode[pid].set

\* process.join(timeout=1) returns after at most a second, whatever the
\* process does.
join_returns(pid) == TRUE

\* The devices of a poll's result a process would be started for.
Candidates(cur) ==
    {k \in 1..Len(cur) : is_new(cur[k]) /\ ~in_blacklist(cur[k])}

\* Lines 257-270: sleep, poll.  (The free-space warnings only print.)
poll ==
    /\ spc = "poll"
    /\ \E n \in SUBSET SupNodes :
           /\ nspawn + Cardinality(Candidates(get_disks(n))) <= MaxSpawns
           /\ current_disks' = get_disks(n)
           /\ polls' = <<polls[2], get_disks(n)>>
    /\ di' = 1
    /\ spc' = "for"
    /\ UNCHANGED <<config, walkVars, q, copyVars, backupVars, last_disks, recheck_disks,
                   processes, still_running, ji, exitcode, nspawn, sent, printed,
                   syncs, spawnInfo>>

\* Lines 272-276: the next disk of current_disks; a new disk that is not
\* blacklisted is polled for again after 3 seconds.  (After the loop nothing
\* reads recheck_disks before it is assigned again: the model forgets it, and
\* the loops' indices, where the loops end.)
for_disk ==
    /\ spc = "for"
    /\ IF di > Len(current_disks) THEN
           /\ spc' = "drain"
           /\ di' = 0
           /\ recheck_disks' = <<>>
       ELSE IF is_new(current_disks[di]) /\ ~in_blacklist(current_disks[di]) THEN
           /\ \E n \in SUBSET SupNodes : recheck_disks' = get_disks(n)
           /\ spc' = "recheck"
           /\ UNCHANGED di
       ELSE
           /\ di' = di + 1
           /\ UNCHANGED <<spc, recheck_disks>>
    /\ UNCHANGED <<config, walkVars, q, copyVars, backupVars, last_disks, current_disks,
                   processes, still_running, ji, exitcode, nspawn, sent, printed,
                   syncs, polls, spawnInfo>>

\* Lines 277-281: a disk that is still there gets its process.
start_backup ==
    /\ spc = "recheck"
    /\ IF still_present(current_disks[di]) THEN
           /\ nspawn' = nspawn + 1
           /\ exitcode' = Append(exitcode, None)
           /\ sent' = Append(sent, 0)
           /\ processes' = Append(processes,
                                  [disk |-> current_disks[di], pid |-> nspawn + 1])
           /\ printed' = Append(printed, <<"Starting backup">>)
           /\ spawnInfo' = Append(spawnInfo,
                                  [disk |-> current_disks[di], exitcodes |-> exitcode,
                                   tracked |-> processes])
       ELSE UNCHANGED <<nspawn, exitcode, sent, processes, printed, spawnInfo>>
    /\ di' = di + 1
    /\ spc' = "for"
    /\ UNCHANGED <<config, walkVars, q, copyVars, backupVars, last_disks, current_disks,
                   recheck_disks, still_running, ji, syncs, polls>>

\* The messages of queue that worker pid has put, as printed lines.
RECURSIVE from(_, _)
from(queue, pid) ==
    IF queue = <<>> THEN <<>>
    ELSE (IF Head(queue).file = pid THEN <<Head(queue).kind>> ELSE <<>>)
             \o from(Tail(queue), pid)

\* Lines 283-288: q.get(block=False) until queue.Empty; every message is
\* printed.  (The order of the lines of different workers is not kept.)
drain ==
    /\ spc = "drain"
    /\ printed' = [pid \in 1..nspawn |-> printed[pid] \o from(q, pid)]
    /\ q' = <<>>
    /\ still_running' = <<>>
    /\ ji' = 1
    /\ spc' = "join"
    /\ UNCHANGED <<config, walkVars, copyVars, backupVars, last_disks, current_disks,
                   recheck_disks, di, processes, exitcode, nspawn, sent, syncs,
                   polls, spawnInfo>>

\* A classification that does not look at the sign of the exit code.
completion_unsigned(code) ==
    IF code = 0 THEN "has finished" ELSE "terminated with exit code"

\* The line printed for an exit code (lines 295-306).
completion(code) ==
    IF code = 0 THEN "has finished"
    ELSE IF code < 0 THEN "died from signal"
    ELSE "terminated with exit code"

\* Lines 291-309: one turn of the join loop.
join_process ==
    /\ spc = "join"
    /\ ji <= Len(processes)
    /\ join_returns(processes[ji].pid)
    /\ IF ~exitcode[processes[ji].pid].set THEN
           /\ still_running' = Append(still_running, processes[ji])
           /\ UNCHANGED <<syncs, printed>>
       ELSE
           /\ syncs' = syncs + 1
           /\ printed' = [printed EXCEPT ![processes[ji].pid] =
                              Append(@, completion(exitcode[processes[ji].pid].code))]
           /\ UNCHANGED still_running
    /\ ji' = ji + 1
    /\ UNCHANGED <<config, walkVars, q, copyVars, backupVars, spc, last_disks, current_disks,
                   recheck_disks, di, processes, exitcode, nspawn, sent, polls,
                   spawnInfo>>

\* Lines 310-311, after the join loop.
end_of_loop ==
    /\ spc = "join"
    /\ ji > Len(processes)
    /\ processes' = still_running
    /\ last_disks' = current_disks
    /\ ji' = 0
    /\ spc' = "poll"
    /\ UNCHANGED <<config, walkVars, q, copyVars, backupVars, current_disks, recheck_disks, di,
                   still_running, exitcode, nspawn, sent, printed, syncs, polls,
                   spawnInfo>>

\* A running worker puts a progress message on the queue.
worker_put ==
    \E pid \in 1..nspawn :
        /\ ~exitcode[pid].set
        /\ sent[pid] < MaxMsgs
        /\ q' = Append(q, Msg("progress", pid))
        /\ sent' = [sent EXCEPT ![pid] = @ + 1]
        /\ UNCHANGED <<config, walkVars, copyVars, backupVars, spc, last_disks, current_disks,
                       recheck_disks, di, processes, still_running, ji, exitcode,
                       nspawn, printed, syncs, polls, spawnInfo>>

\* A running worker ends: backup returns, an exception leaves it, or a
\* signal kills the process.  A worker that hangs takes no step.
worker_exit ==
    \E pid \in 1..nspawn, code \in ExitCodes :
        /\ ~exitcode[pid].set
        /\ exitcode' = [exitcode EXCEPT ![pid] = ExitCode(code)]
        /\ UNCHANGED <<config, walkVars, q, copyVars, backupVars, spc, last_disks,
                       current_disks, recheck_disks, di, processes, still_running,
                       ji, nspawn, sent, printed, syncs, polls, spawnInfo>>

----------------------------------------------------------------------------
(* The supervisor layer's specifications. *)

\* Lines 238-254: the startup poll fills last_disks.
InitSup ==
    /\ CopyIdle
    /\ BackupIdle
    /\ WalkIdle
    /\ config \in [verbose : {TRUE}, hardlink : {TRUE}, blacklist : Blacklists,
                  copy_dotfiles : {FALSE}]
    /\ q = <<>>
    /\ spc = "poll"
    /\ \E n \in SUBSET SupNodes :
           /\ last_disks = get_disks(n)
           /\ polls = <<get_disks(n), get_disks(n)>>
    /\ current_disks = <<>>
    /\ recheck_disks = <<>>
    /\ di = 0
    /\ processes = <<>>
    /\ still_running = <<>>
    /\ ji = 0
    /\ exitcode = <<>>
    /\ nspawn = 0
    /\ sent = <<>>
    /\ printed = <<>>
    /\ syncs = 0
    /\ spawnInfo = <<>>

\* The steps of the supervisor process itself.
Supervisor ==
    poll \/ for_disk \/ start_backup \/ drain \/ join_process \/ end_of_loop

NextSup == Supervisor \/ worker_put \/ worker_exit

SpecSup == InitSup /\ [][NextSup]_vars

\* The supervisor is a running process and each of its steps ends (its sleeps
\* and its join are bounded, its get does not block).  A worker may hang:
\* nothing is assumed of the workers' steps.
SpecSupFair == SpecSup /\ WF_vars(Supervisor)

----------------------------------------------------------------------------
(* Properties of the copy layer. *)

Entries == 1..Len(files)

\* copyfile has returned to backup_dir for entry i.
Returned(i) == i < idx

\* The processing of entry i is over: copyfile returned, or raised.
Ended(i) == Returned(i) \/ (i = idx /\ wpc = "raised")

\* copyfile took the "copied" path for entry i and inserted its record.
Verified(i) == \E k \in 1..Len(records) : records[k].source = i

CountMsg(kind, i) == Cardinality({k \in 1..Len(q) : q[k] = Msg(kind, i)})

CountRecords(i) == Cardinality({k \in 1..Len(records) : records[k].source = i})

\* Some hash of entry i raised.
Raised(i) == \E k \in 1..Len(attempts[i]) : attempts[i][k] = "raised"

\* C1: a file whose pre-copy and post-copy digests never agree (a digest is
\* absent, or they differ, on every attempt) is byte-copied exactly 3 times,
\* then reported once with "Could not copy" and left; there is no 4th copy,
\* and a file first verified at attempt k is byte-copied exactly k times.
C1_ThreeAttempts ==
    \A i \in Entries :
        /\ cpCalls[i] <= 3
        /\ (Ended(i) /\ ~Verified(i)) =>
               /\ cpCalls[i] = 3
               /\ CountMsg("Could not copy", i) = 1
        /\ Verified(i) =>
               /\ cpCalls[i] = Len(attempts[i])
               /\ CountMsg("Could not copy", i) = 0

\* The part of C1 that the code keeps: where no hash raises, the digests that
\* never agree are both present and differ on each attempt.
RetryBoundWithoutRaise ==
    \A i \in Entries :
        /\ cpCalls[i] <= 3
        /\ (Ended(i) /\ ~Verified(i) /\ ~Raised(i)) =>
               /\ cpCalls[i] = 3
               /\ CountMsg("Could not copy", i) = 1
        /\ Verified(i) =>
               /\ cpCalls[i] = Len(attempts[i])
               /\ CountMsg("Could not copy", i) = 0

\* C2, as claimed: whenever copyfile reports success for a file, the
\* destination's content is byte-identical to the source's, for files of
\* every size and for any corruption of the byte copy.
C2_RoundTripEverySize ==
    \A i \in Entries :
        Verified(i) => (dest[i].exists /\ dest[i].data = files[i].data)

\* C2, amended: whenever copyfile reports success for a file, the
\* destination exists; for a file of at most PartialLimit bytes (32 MiB) its
\* content is byte-identical to the source's; for a larger file the first,
\* last and middle blocks of the destination equal those of the source.
C2_RoundTripFullHash ==
    \A i \in Entries :
        Verified(i) =>
            /\ dest[i].exists
            /\ Len(files[i].data) <= PartialLimit
                   => dest[i].data = files[i].data
            /\ Len(files[i].data) > PartialLimit
                   => PartialFeed(dest[i].data) = PartialFeed(files[i].data)

\* A fully hashed file of several blocks whose first copy was rejected and
\* whose later copy verified.
C2_Witness ==
    \E i \in Entries :
        /\ Verified(i)
        /\ Len(files[i].data) = PartialLimit
        /\ cpCalls[i] >= 2
        /\ dest[i].data = files[i].data

\* C3: once copyfile has returned for a file, the destination holds an entry
\* for it only if its last copy passed the hash verification; when all 3
\* attempts failed, the entry is absent and a failure has been reported.
C3_NoCorruptEntryLeft ==
    \A i \in Entries :
        Returned(i) =>
            /\ dest[i].exists => Verified(i)
            /\ ~Verified(i) =>
                   (~dest[i].exists /\ CountMsg("Could not copy", i) >= 1)

\* C4: with hardlink enabled, when two source files of identical content
\* have been processed one after the other, the second file's destination
\* was made by "ln" from the first file's destination and exactly one byte
\* copy was run for the two files.
C4_SecondIsHardLink ==
    (/\ config.hardlink
     /\ Len(files) = 2
     /\ Returned(2)
     /\ Verified(1)
     /\ files[1].data = files[2].data
     /\ files[2].readable)
        => (/\ \E k \in 1..Len(lnCalls) : lnCalls[k] = <<1, 2>>
            /\ cpCalls[1] + cpCalls[2] = 1)

\* C10: a file that cannot be opened or read while hashing does not end the
\* worker: its digest counts as absent, copyfile retries, reports the file as
\* failed after 3 attempts, and the walk goes on with the next entry.
C10_UnreadableFileNotFatal ==
    \A i \in Entries :
        ~files[i].readable =>
            /\ ~(wpc = "raised" /\ idx = i)
            /\ Returned(i) => CountMsg("Could not copy", i) = 1

\* The digest copyfile computes of the source of entry i and of a file at
\* its destination.
Partial(i) == Len(files[i].data) > PartialLimit

\* C17: copyfile inserts exactly one record for a file if and only if one of
\* its at most 3 attempts ended with equal pre-copy and post-copy digests;
\* a failed attempt and a file that exhausted its attempts get no record, and
\* the recorded digest is the post-copy digest of the verified attempt.
C17_RecordDiscipline ==
    \A i \in Entries :
        /\ CountRecords(i) <= 1
        /\ cpCalls[i] <= 3
        /\ CountRecords(i) = 1 <=>
               (attempts[i] # <<>> /\ attempts[i][Len(attempts[i])] = "verified")
        /\ \A k \in 1..(Len(attempts[i]) - 1) : attempts[i][k] = "mismatch"
        /\ \A k \in 1..Len(records) :
               records[k].source = i =>
                   /\ records[k].target = i
                   /\ dest[i].exists
                   /\ records[k].hash = hash_file(dest[i], Partial(i))
                   /\ records[k].hash = hash_file(files[i], Partial(i))
        /\ (Returned(i) /\ ~Verified(i)) =>
               /\ cpCalls[i] = 3
               /\ dest[i].exists
               /\ hash_file(dest[i], Partial(i)) # hash_file(files[i], Partial(i))

\* The walk has ended; one file was verified at its second copy and has its
\* one record, the other exhausted its attempts and has none.
C17_Witness ==
    /\ wpc = "done"
    /\ Len(records) = 1
    /\ \E i, j \in Entries :
           /\ Verified(i)
           /\ attempts[i] = <<"mismatch", "verified">>
           /\ attempts[j] = <<"mismatch", "mismatch", "mismatch", "gave up">>

----------------------------------------------------------------------------
(* Properties of the backup layer. *)

partitionlocation(i) == join(disklocation, LastComponent(partitions[i]))

\* C7: when the walk (or the mount) of partition pi of a disk raises an
\* exception, pi is unmounted and its mount point removed all the same, and
\* every later partition pj is still mounted, walked and unmounted by the
\* same worker.
C7_LaterPartitionsProcessed ==
    bpc = "exited" =>
        \A i \in 1..Len(partitions) :
            partitions[i] \in raisedIn =>
                /\ partitionlocation(i) \notin mounted
                /\ partitionlocation(i) \notin dirs
                /\ \A j \in (i + 1)..Len(partitions) :
                       /\ InList(mountCalls, partitions[j])
                       /\ InList(walked, partitions[j])
                       /\ partitionlocation(j) \notin mounted

\* C8: on every exit path of the worker, every volume it mounted has been
\* unmounted and every directory it created below mountdir (the disk's and
\* each partition's) has been removed by the time it ends.
C8_StagingRemovedOnExit ==
    bpc = "exited" =>
        /\ mounted = {}
        /\ created \cap dirs = {}

\* get_partitions has been run (backup has passed line 175).
Listed == created # {}

\* C13: get_partitions(d) returns, in ascending order and without
\* duplicates, exactly the existing nodes whose path starts with d and
\* differs from d; d itself is not in the result.
C13_GetPartitions ==
    Listed =>
        /\ \A k \in 1..Len(partitions) :
               /\ partitions[k] \in nodes
               /\ StartsWith(partitions[k], disk)
               /\ partitions[k] # disk
        /\ \A n \in nodes :
               (StartsWith(n, disk) /\ n # disk) => InList(partitions, n)
        /\ \A i, j \in 1..Len(partitions) :
               i < j => StrLess(partitions[i], partitions[j])

\* The nodes /dev/sda, /dev/sda1, /dev/sda2 and /dev/sdb exist, and
\* get_partitions(/dev/sda) has returned [/dev/sda1, /dev/sda2].
C13_Witness ==
    /\ bpc = "mount"
    /\ nodes = NodeUniverse
    /\ partitions = <<<<Sep, "a", "1">>, <<Sep, "a", "2">>>>

\* backupdir/<timestamp>/<name>/<file>
Under(name, file) ==
    backupdir \o <<Sep>> \o backuptimestamp \o <<Sep>> \o name \o <<Sep>> \o file

C15_FailedMountAbortsWalk ==
    (bpc = "walk" /\ location \notin mounted) =>
        /\ ~InList(walked, volume)
        /\ \A e \in placed : e.volume # volume

----------------------------------------------------------------------------
(* Properties of the walk layer. *)

\* A path with a component whose name starts with ".".
Hidden(path) == \E k \in 1..Len(path) : Head(path[k]) = "."

\* The components of a path, joined by the separator.
RECURSIVE Text(_)
Text(path) ==
    IF path = <<>> THEN <<>>
    ELSE IF Len(path) = 1 THEN path[1]
    ELSE path[1] \o <<Sep>> \o Text(Tail(path))

\* backupdir/<timestamp>/<label> of the walk.
DestRoot == backupdir \o <<Sep>> \o WalkStamp \o <<Sep>> \o WalkLabel

\* backupdir/<timestamp>/<label>/r for the relative path r.
Mirror(path) == DestRoot \o <<Sep>> \o Text(path)

\* The path of a destination entry below backupdir/<timestamp>/<label>.
Below(e) == components(SubSeq(e.path, Len(DestRoot) + 1, Len(e.path)), <<>>)

\* C11: with copy_dotfiles disabled the destination tree has no entry for a
\* source path with a component that starts with "." (such an entry is
\* neither copied nor linked, and a hidden directory is not listed); with
\* copy_dotfiles enabled every hidden regular file the walk comes to is
\* handed to copyfile, like any other file.
C11_HiddenPolicy ==
    /\ ~config.copy_dotfiles =>
           /\ \A e \in made : ~Hidden(Below(e))
           /\ \A o \in ops : ~Hidden(o.found)
           /\ \A dir \in listed : ~Hidden(dir)
    /\ config.copy_dotfiles =>
           \A n \in tree :
               (n.kind = "file" /\ n.path \in seen) =>
                   \E o \in ops : o.op = "copyfile" /\ o.found = n.path

\* A walk with copy_dotfiles disabled has ended; it came to a hidden
\* directory that holds a file, and to a file that is not hidden, and the
\* destination holds the latter only.
C11_Witness ==
    /\ kpc = "done"
    /\ ~config.copy_dotfiles
    /\ Node(<<<<".", "t">>, <<"f">>>>, "file", <<>>) \in tree
    /\ <<<<".", "t">>>> \in seen
    /\ <<<<"f">>>> \in seen
    /\ made = {[path |-> Mirror(<<<<"f">>>>), kind |-> "file", target |-> <<>>]}

\* C12: a symbolic link that is not hidden is never hashed, never copied and
\* never listed; the walk hands it to copylink only, which makes at the
\* destination a symbolic link with the target of the source's link and
\* inserts no record.
C12_SymlinkPolicy ==
    \A n \in tree :
        (n.kind = "link" /\ ~Hidden(n.path) /\ n.path \in seen /\ kpc # "raised") =>
            /\ n.path \notin listed
            /\ \A o \in ops : o.found = n.path => (o.op = "copylink" /\ ~o.record)
            /\ \E o \in ops :
                   /\ o.found = n.path
                   /\ [path |-> o.dest, kind |-> "link", target |-> n.target] \in made

\* The part of C12 that the code keeps: the same for links whose target does
\* not start with "-", below an absolute mount root.
SymlinkPolicyPlainTargets ==
    \A n \in tree :
        (/\ n.kind = "link" /\ ~Hidden(n.path) /\ n.path \in seen
         /\ Head(n.target) # "-" /\ Head(srcmount) = Sep) =>
            /\ kpc # "raised"
            /\ n.path \notin listed
            /\ \A o \in ops : o.found = n.path => (o.op = "copylink" /\ ~o.record)
            /\ [path |-> Mirror(n.path), kind |-> "link", target |-> n.target] \in made

\* Every call of copyfile and copylink got the directory part of the entry's
\* relative path as subdir and has backupdir/<timestamp>/<label>/r as dest,
\* and a walk that has ended has come to every file and link it is to place.
Mirrored ==
    /\ \A o \in ops :
           /\ o.subdir = Text(Parent(o.found))
           /\ o.dest = Mirror(o.found)
    /\ kpc = "done" =>
           \A n \in tree :
               (/\ n.kind \in {"file", "link"}
                /\ (Hidden(n.path) => config.copy_dotfiles)) =>
                   \E o \in ops : o.found = n.path

\* C18: for every file or link that is not hidden and that the walk finds at
\* relative path r, at any depth, backup_dir computes the directory part of
\* r as subdir, so that the entry's destination is
\* backupdir/<timestamp>/<label>/r; for every mount root and every directory
\* name, also one that repeats the mount root's text.
C18_PathMirroring == Mirrored /\ kpc # "raised"

\* The part of C18 that the code keeps: the same below an absolute mount
\* root.
MirrorUnderAbsoluteRoot == Head(srcmount) = Sep => (Mirrored /\ kpc # "raised")

----------------------------------------------------------------------------
(* Properties of the supervisor layer. *)

\* The texts between the commas of a string.
RECURSIVE split(_, _)
split(str, acc) ==
    IF str = <<>> THEN {acc}
    ELSE IF Head(str) = "," THEN {acc} \cup split(Tail(str), <<>>)
    ELSE split(Tail(str), Append(acc, Head(str)))

\* The device addresses the option blacklist lists.
Blacklisted == split(config.blacklist, <<>>) \ {<<>>}

\* This step starts a worker process.
Spawns == nspawn' = nspawn + 1

\* C5: in an iteration of the supervisor loop a worker is started for device
\* d only if d is in this iteration's poll result, d was not in the result
\* of the poll before it (the startup poll for the first iteration), d is
\* not blacklisted, and d is in the re-poll of the debounce; so a device of
\* the poll that is missing from its re-poll starts no backup in that
\* iteration.
C5_SpawnGuard ==
    [][Spawns =>
          LET d == processes'[Len(processes')].disk
          IN  /\ spawnInfo'[nspawn'].disk = d
              /\ InList(polls[2], d)
              /\ ~InList(polls[1], d)
              /\ d \notin Blacklisted
              /\ InList(recheck_disks, d)]_vars

\* A worker has just been started for a device that the poll newly showed
\* and the re-poll confirmed, while another device of the poll was skipped.
C5_Witness ==
    /\ spc = "for"
    /\ nspawn >= 1
    /\ di >= 2
    /\ processes # <<>>
    /\ processes[Len(processes)].pid = nspawn
    /\ processes[Len(processes)].disk = current_disks[di - 1]
    /\ InList(recheck_disks, current_disks[di - 1])
    /\ Len(recheck_disks) < Len(current_disks)

\* C6: no second worker is started for a device address while the first is
\* still running, whatever the later polls show: the tracked set never holds
\* two running workers of one device address.
C6_OneRunningWorkerPerDevice ==
    \A i, j \in 1..Len(processes) :
        (i < j /\ processes[i].disk = processes[j].disk)
            => (exitcode[processes[i].pid].set \/ exitcode[processes[j].pid].set)

\* The re-poll has confirmed the new device d.
DebouncePassed(d) ==
    spc = "recheck" /\ current_disks[di] = d /\ InList(recheck_disks, d)

\* C9: whatever the workers do (end with code 0, end with another code, die
\* from a signal, never end), the supervisor polls again and again, and a
\* device that is newly attached and confirmed by the re-poll gets a worker
\* of its own started.
C9_SupervisorKeepsGoing ==
    /\ []<>(spc = "poll")
    /\ \A d \in {DiskA, DiskB} : \A n \in 0..(MaxSpawns - 1) :
           (DebouncePassed(d) /\ nspawn = n)
               ~> (nspawn > n /\ spawnInfo[n + 1].disk = d)

\* The worker of one device ended with an exit code other than 0 and was
\* dropped from the tracked set; later a worker was started for another
\* device, and the supervisor is at its poll again while that worker runs.
C9_Witness ==
    /\ spc = "poll"
    /\ \E p1, p2 \in 1..nspawn :
           /\ p1 < p2
           /\ spawnInfo[p1].disk # spawnInfo[p2].disk
           /\ spawnInfo[p2].exitcodes[p1].set
           /\ spawnInfo[p2].exitcodes[p1].code # 0
           /\ spawnInfo[p2].tracked = <<>>
           /\ ~exitcode[p2].set

\* The lines the supervisor prints when a worker has ended.
Completions == {"has finished", "died from signal", "terminated with exit code"}

\* Where the lines printed about worker pid say that it has ended.
CompletionLines(pid) ==
    {k \in 1..Len(printed[pid]) : printed[pid][k] \in Completions}

Logged(pid) == CompletionLines(pid) # {}

\* Worker pid is in processes.
Tracked(pid) == \E k \in 1..Len(processes) : processes[k].pid = pid

\* Worker pid is in still_running.
StillRunning(pid) == \E k \in 1..Len(still_running) : still_running[k].pid = pid

\* This step is a turn of the join loop that finds the exit code set.
JoinObservesExit ==
    /\ spc = "join"
    /\ ji <= Len(processes)
    /\ ji' = ji + 1
    /\ exitcode[processes[ji].pid].set

\* C16: a worker that has ended is classified and logged exactly once (code
\* 0: finished, negative: died from signal, positive: error exit), with one
\* sync, in the first iteration whose join finds its exit code set, and it
\* is out of the tracked set from then on; a worker whose exit code is unset
\* stays tracked and is neither logged nor dropped; and every worker that
\* ends is logged in the end.
C16_CompletionHandling ==
    /\ [](\A pid \in 1..nspawn :
             /\ Cardinality(CompletionLines(pid)) <= 1
             /\ Logged(pid) =>
                    /\ exitcode[pid].set
                    /\ LET line == printed[pid][CHOOSE k \in CompletionLines(pid) : TRUE]
                           code == exitcode[pid].code
                       IN  /\ code = 0 => line = "has finished"
                           /\ code < 0 => line = "died from signal"
                           /\ code > 0 => line = "terminated with exit code"
                    /\ ~StillRunning(pid)
                    /\ spc # "join" => ~Tracked(pid)
             /\ ~exitcode[pid].set => (~Logged(pid) /\ Tracked(pid)))
    /\ [](syncs = Cardinality({pid \in 1..nspawn : Logged(pid)}))
    /\ [][JoinObservesExit =>
              /\ ~Logged(processes[ji].pid)
              /\ Len(printed'[processes[ji].pid]) = Len(printed[processes[ji].pid]) + 1
              /\ syncs' = syncs + 1
              /\ still_running' = still_running]_vars
    /\ \A pid \in Pids :
           (pid <= nspawn /\ exitcode[pid].set) ~> (pid <= nspawn /\ Logged(pid))

\* Between two iterations: one worker died from a signal, was logged, and is
\* tracked no more, while another is running and tracked.
C16_Witness ==
    /\ spc = "poll"
    /\ syncs = 1
    /\ \E p1, p2 \in 1..nspawn :
           /\ printed[p1][Len(printed[p1])] = "died from signal"
           /\ ~Tracked(p1)
           /\ ~exitcode[p2].set
           /\ Tracked(p2)

\* The new device d was in the poll of this iteration and was missing from
\* the re-poll of the debounce: no worker was started for it.
Missed(d) ==
    /\ spc = "for"
    /\ di >= 2
    /\ current_disks[di - 1] = d
    /\ is_new(d)
    /\ ~in_blacklist(d)
    /\ ~InList(recheck_disks, d)

\* A poll has not shown device d.
AbsentInPoll(d) == spc = "for" /\ ~InList(current_disks, d)

\* C19: a device that is not blacklisted, was absent at startup, appears at
\* a poll and is in every later poll gets a worker started in the end, also
\* when it was missing from the re-poll of the poll it appeared at.
C19_AttachLiveness ==
    \A d \in {DiskA, DiskB} : \A n \in 0..(MaxSpawns - 1) :
        (~InList(last_disks, d) /\ ~in_blacklist(d)) =>
            []((Missed(d) /\ nspawn = n) =>
                   <>(\/ AbsentInPoll(d)
                      \/ \E pid \in (n + 1)..nspawn : spawnInfo[pid].disk = d))

\* The progress lines printed about worker pid.
ProgressLines(pid) ==
    {k \in 1..Len(printed[pid]) : printed[pid][k] = "progress"}

\* C20: when the supervisor logs that a worker has ended, every message the
\* worker has put on the queue has been taken off and printed; no message
\* of a worker is printed after the line of its completion.
C20_ProgressBeforeCompletion ==
    \A pid \in 1..nspawn :
        Logged(pid) =>
            /\ \A k \in 1..Len(q) : q[k].file # pid
            /\ Cardinality(ProgressLines(pid)) = sent[pid]
            /\ \A k \in ProgressLines(pid) : \A c \in CompletionLines(pid) : k < c

============================================================================
